---- MODULE Spec2Model ----
(***************************************************************************)
(* A model of the iffi crate: the Iffi trait's validators (hand-written    *)
(* in src/src/impls.rs, generated by the derive in src/macros/src/lib.rs), *)
(* the diagnostic types BitPattern/BitRanges, and the two conversion       *)
(* entry points try_from and into of src/src/lib.rs.                       *)
(*                                                                         *)
(* Memory is a sequence of bytes (0..255) in the target's native order.    *)
(* A type is a sequence of names: <<"u8">>, <<"MaybeInvalid", "u8">>.      *)
(* The build is fixed by two switches: the target's endianness and the     *)
(* "alloc" feature, which selects alloc_bits.rs or nostd_bits.rs.          *)
(***************************************************************************)
EXTENDS Integers, Sequences, FiniteSets, TLC

VARIABLES
    big_endian,   \* cfg(target_endian = "big")
    alloc,        \* cfg(feature = "alloc")
    T,            \* the subset type of the call, or the type a derive is on
    U,            \* the universe type of the call
    arg,          \* the caller's value: [of |-> "T" | "U" | "valid", mem |-> bytes],
                  \* or [of |-> "kinds", mem |-> the two inputs]
    held,         \* the universe value produced by into, or the wrapper
                  \* produced by new or zeroed, or the two ErrorKinds made,
                  \* <<>> before
    result,       \* what the last operation returned
    steps,        \* the operations performed so far, in order
    output,       \* what the derive applied to T expanded to
    pc            \* "start", "converted", "checked", "done" of a conversion;
                  \* "item", "expanded", "marked" of a derive;
                  \* "value", "wrapped", "unwrapped" of a wrapper;
                  \* "kinds", "built", "compared" of a comparison

vars == <<big_endian, alloc, T, U, arg, held, result, steps, output, pc>>

----------------------------------------------------------------------------
(* Bytes and numbers.  A number is kept as the list of its little-endian   *)
(* bytes; its memory image is that list in the target's byte order.        *)

Reverse(s) == [i \in 1..Len(s) |-> s[Len(s) + 1 - i]]

Zeros(n) == [i \in 1..n |-> 0]

Ones(n) == [i \in 1..n |-> 255]

Max(a, b) == IF a >= b THEN a ELSE b

Min(a, b) == IF a <= b THEN a ELSE b

RoundUp(n, a) == ((n + a - 1) \div a) * a

\* The little-endian bytes of 0 <= k < 65536 at width w.
LEBytes(k, w) ==
    [i \in 1..w |-> IF i = 1 THEN k % 256
                    ELSE IF i = 2 THEN (k \div 256) % 256
                    ELSE 0]

\* A number's image in memory, and the number a memory image holds.
ToMem(le) == IF big_endian THEN Reverse(le) ELSE le

FromMem(mem) == IF big_endian THEN Reverse(mem) ELSE mem

\* uN::to_le_bytes: the array whose memory is the little-endian byte list.
to_le_bytes(num) == num

----------------------------------------------------------------------------
(* BitPattern and BitRanges.                                               *)

BitPatternCap == 20

\* bytemuck::bytes_of(value) is the value's memory image.
BitPattern_from_le_alloc(mem) ==
    LET bytes == IF big_endian THEN Reverse(mem) ELSE mem
    IN  [bytes |-> bytes, len |-> Len(bytes)]

\* A faulty from_le: the length recorded is the size of the value.
BitPattern_from_le_nostd_unclamped(mem) ==
    LET len  == Min(Len(mem), BitPatternCap)
        kept == SubSeq(mem, 1, len)
        head == IF big_endian THEN Reverse(kept) ELSE kept
    IN  [bytes |-> head \o Zeros(BitPatternCap - len), len |-> Len(mem)]

BitPattern_from_le_nostd(mem) ==
    LET len  == Min(Len(mem), BitPatternCap)
        kept == SubSeq(mem, 1, len)
        head == IF big_endian THEN Reverse(kept) ELSE kept
    IN  [bytes |-> head \o Zeros(BitPatternCap - len), len |-> len]

BitPattern_from_le(mem) ==
    IF alloc THEN BitPattern_from_le_alloc(mem) ELSE BitPattern_from_le_nostd(mem)

\* ranges: a sequence of [start |-> mem, end |-> mem].
\* A faulty from_le: only the first range is kept.
BitRanges_from_le_alloc_first(ranges) ==
    [i \in 1..Min(Len(ranges), 1) |->
        [start |-> BitPattern_from_le(ranges[i].start),
         end   |-> BitPattern_from_le(ranges[i].end)]]

BitRanges_from_le_alloc(ranges) ==
    [i \in 1..Len(ranges) |->
        [start |-> BitPattern_from_le(ranges[i].start),
         end   |-> BitPattern_from_le(ranges[i].end)]]

BitRanges_from_le_nostd(ranges) == <<>>

BitRanges_from_le(ranges) ==
    IF alloc THEN BitRanges_from_le_alloc(ranges) ELSE BitRanges_from_le_nostd(ranges)

----------------------------------------------------------------------------
(* Errors.                                                                 *)

NoPattern == [bytes |-> <<>>, len |-> 0]

\* The variants of ErrorKind in a build with or without feature "std".
ErrorKind(std) ==
    {"NullPtr", "InvalidEnumDiscriminant", "InvalidBitPattern"}
        \cup (IF std THEN {"Custom"} ELSE {})

\* A faulty constructor: an unknown tag is reported as a missing value.
AbsentOptional(bits) ==
    [kind |-> "AbsentOptional", bits |-> bits, valid |-> <<>>]

InvalidEnumDiscriminant(bits) ==
    [kind |-> "InvalidEnumDiscriminant", bits |-> bits, valid |-> <<>>]

InvalidBitPattern(bits, valid) ==
    [kind |-> "InvalidBitPattern", bits |-> bits, valid |-> valid]

NoErrorKind == [kind |-> "none", bits |-> NoPattern, valid |-> <<>>]

NullPtr == [kind |-> "NullPtr", bits |-> NoPattern, valid |-> <<>>]

\* Custom(Box<dyn Error>): the boxed error is kept in place of the ranges.
Custom(source) == [kind |-> "Custom", bits |-> NoPattern, valid |-> source]

\* derive(PartialEq) of BitPattern: the stored bytes and the length.
BitPattern_eq(l, r) == l.bytes = r.bytes /\ l.len = r.len

\* derive(PartialEq) of BitRanges: the ranges one by one, or the units.
BitRanges_eq(l, r) ==
    /\ Len(l) = Len(r)
    /\ \A i \in 1..Len(l) :
          BitPattern_eq(l[i].start, r[i].start) /\ BitPattern_eq(l[i].end, r[i].end)

\* A faulty eq: two Custom errors are compared by what they box.
ErrorKind_eq_by_source(l, r) ==
    IF l.kind = "InvalidEnumDiscriminant" /\ r.kind = "InvalidEnumDiscriminant"
    THEN BitPattern_eq(l.bits, r.bits)
    ELSE IF l.kind = "InvalidBitPattern" /\ r.kind = "InvalidBitPattern"
    THEN BitPattern_eq(l.bits, r.bits) /\ BitRanges_eq(l.valid, r.valid)
    ELSE l = r

\* impl PartialEq for ErrorKind.
ErrorKind_eq(l, r) ==
    IF l.kind = "InvalidEnumDiscriminant" /\ r.kind = "InvalidEnumDiscriminant"
    THEN BitPattern_eq(l.bits, r.bits)
    ELSE IF l.kind = "InvalidBitPattern" /\ r.kind = "InvalidBitPattern"
    THEN BitPattern_eq(l.bits, r.bits) /\ BitRanges_eq(l.valid, r.valid)
    ELSE l.kind = r.kind

type_name(t) == t

\* A faulty Error::new: the two type names change places.
Error_new_swapped(t, u, error) ==
    [error |-> error, from |-> type_name(t), into |-> type_name(u)]

Error_new(t, u, error) == [error |-> error, from |-> type_name(u), into |-> type_name(t)]

NoError == [error |-> NoErrorKind, from |-> <<>>, into |-> <<>>]

----------------------------------------------------------------------------
(* Types.                                                                  *)

Ty(n) == <<n>>

MaybeInvalid(t) == <<"MaybeInvalid">> \o t

IsMaybeInvalid(t) == Len(t) > 1

Inner(t) == Tail(t)

\* The primitive integers and their sizes in bytes (a 64-bit target).
IntSize ==
    [u8 |-> 1, u16 |-> 2, u32 |-> 4, u64 |-> 8, u128 |-> 16, usize |-> 8,
     i8 |-> 1, i16 |-> 2, i32 |-> 4, i64 |-> 8, i128 |-> 16, isize |-> 8]

IntTypes == DOMAIN IntSize

\* impl_nonzero_map!: each NonZero type and its zero-inclusive integer.
NonZeroOf ==
    [NonZeroU8 |-> "u8", NonZeroU16 |-> "u16", NonZeroU32 |-> "u32",
     NonZeroU64 |-> "u64", NonZeroU128 |-> "u128", NonZeroUsize |-> "usize",
     NonZeroI8 |-> "i8", NonZeroI16 |-> "i16", NonZeroI32 |-> "i32",
     NonZeroI64 |-> "i64", NonZeroI128 |-> "i128", NonZeroIsize |-> "isize"]

NonZeroTypes == DOMAIN NonZeroOf

(* Declarations handed to the derive: a DeriveInput.                       *)

ReprItem(id) == [id |-> id, n |-> 0]

ReprAlign(n) == [id |-> "align", n |-> n]

\* An unnamed (tuple) field has ident "".
Field(ident, ty, attrs) == [ident |-> ident, ty |-> ty, attrs |-> attrs]

IffiWith(ty) == [param |-> "with", ty |-> ty]

\* A discriminant expression: absent, a literal a, or the shift a << b.
NoDisc == [kind |-> "none", a |-> 0, b |-> 0]

Lit(a) == [kind |-> "lit", a |-> a, b |-> 0]

Shl(a, b) == [kind |-> "shl", a |-> a, b |-> b]

Variant(ident, disc, fields) == [ident |-> ident, disc |-> disc, fields |-> fields]

Struct(reprs, fields) ==
    [data |-> "struct", reprs |-> reprs, fields |-> fields, variants |-> <<>>]

Enum(reprs, variants) ==
    [data |-> "enum", reprs |-> reprs, fields |-> <<>>, variants |-> variants]

DeepNames ==
    <<"Deep1", "Deep2", "Deep3", "Deep4", "Deep5", "Deep6", "Deep7", "Deep8">>

\* The types of the crate's tests (src/src/lib.rs), and more inputs of the
\* derive: a struct with two fallible fields, an enum with a computed
\* discriminant, an enum declared repr(C, u8), a struct with two align
\* items, a transparent struct and a struct of integers with padding.
UserTypes ==
    {"nested::A", "nested::B", "nested::C", "nested::D",
     "derive_iffi::A", "derive_iffi::TA", "Pair", "Flags", "Tagged",
     "Aligned", "Wrapper", "Padded"}
    \cup {DeepNames[i] : i \in 1..Len(DeepNames)}

DeepLevel(n) == CHOOSE i \in 1..Len(DeepNames) : DeepNames[i] = n

DeclOf(n) ==
    CASE n = "nested::A" -> Struct(<<ReprItem("C")>>, <<>>)
      [] n = "nested::B" ->
            Struct(<<ReprItem("C")>>, <<Field("", Ty("nested::A"), <<>>)>>)
      [] n = "nested::C" ->
            Struct(<<ReprItem("C")>>, <<Field("b", Ty("nested::B"), <<>>)>>)
      [] n = "nested::D" ->
            Enum(<<ReprItem("u8")>>,
                 <<Variant("A", NoDisc, <<Field("", Ty("nested::A"), <<>>)>>),
                   Variant("B", NoDisc, <<Field("", Ty("nested::B"), <<>>)>>),
                   Variant("C", NoDisc, <<Field("", Ty("nested::C"), <<>>)>>),
                   Variant("D", NoDisc, <<Field("c", Ty("nested::C"), <<>>)>>),
                   Variant("E", NoDisc, <<>>)>>)
      [] n = "derive_iffi::A" ->
            Struct(<<ReprItem("C")>>,
                   <<Field("a", Ty("u8"), <<>>),
                     Field("b", Ty("NonZeroU8"), <<>>),
                     Field("c", Ty("u8"), <<IffiWith(Ty("u8"))>>)>>)
      [] n = "derive_iffi::TA" ->
            Enum(<<ReprItem("isize"), ReprAlign(1024)>>,
                 <<Variant("A", NoDisc, <<>>),
                   Variant("B", NoDisc, <<>>),
                   Variant("D", Lit(150), <<Field("", Ty("u32"), <<>>)>>),
                   Variant("E", NoDisc, <<Field("a", Ty("u16"), <<>>),
                                          Field("b", Ty("NonZeroU8"), <<>>)>>)>>)
      [] n = "Pair" ->
            Struct(<<ReprItem("C")>>,
                   <<Field("first", Ty("NonZeroU8"), <<>>),
                     Field("second", Ty("NonZeroU16"), <<>>)>>)
      [] n = "Flags" ->
            Enum(<<ReprItem("u8")>>,
                 <<Variant("P", Shl(1, 2), <<>>),
                   Variant("Q", NoDisc, <<Field("", Ty("NonZeroU8"), <<>>)>>)>>)
      [] n = "Tagged" ->
            Enum(<<ReprItem("C"), ReprItem("u8")>>,
                 <<Variant("V", NoDisc, <<Field("", Ty("NonZeroU8"), <<>>),
                                          Field("", Ty("u32"), <<>>)>>),
                   Variant("W", NoDisc, <<>>)>>)
      [] n = "Aligned" ->
            Struct(<<ReprItem("C"), ReprAlign(4), ReprAlign(2)>>,
                   <<Field("x", Ty("NonZeroU8"), <<>>)>>)
      [] n = "Padded" ->
            Struct(<<ReprItem("C")>>,
                   <<Field("a", Ty("u8"), <<>>), Field("b", Ty("u16"), <<>>)>>)
      [] n = "Wrapper" ->
            Struct(<<ReprItem("transparent")>>,
                   <<Field("", Ty("NonZeroU16"), <<>>)>>)
      [] n \in {DeepNames[i] : i \in 1..Len(DeepNames)} ->
            Struct(<<ReprItem("C")>>,
                   <<Field("", IF DeepLevel(n) = 1 THEN Ty("NonZeroU8")
                               ELSE Ty(DeepNames[DeepLevel(n) - 1]), <<>>)>>)

Union(reprs, fields) ==
    [data |-> "union", reprs |-> reprs, fields |-> fields, variants |-> <<>>]

IffiParam(param) == [param |-> param, ty |-> <<>>]

\* More declarations handed to the derives: unions, enums without an
\* integer repr, a packed struct, a struct without repr, fields with two
\* with-overrides or with an unknown parameter, structs of always-valid
\* fields, a struct holding a Pair, an empty enum, a struct holding it, and
\* an enum of always-valid fields.
OtherItems ==
    {"Overlay", "BareUnion", "CEnum", "BareEnum", "Packed", "Plain",
     "Twice", "Odd", "Raw", "Outer", "Holder", "Never", "Void", "Choice"}

ItemOf(n) ==
    CASE n \in UserTypes -> DeclOf(n)
      [] n = "Overlay" ->
            Union(<<ReprItem("C")>>, <<Field("a", Ty("u8"), <<>>),
                                       Field("b", Ty("u16"), <<>>)>>)
      [] n = "BareUnion" -> Union(<<>>, <<Field("a", Ty("u8"), <<>>)>>)
      [] n = "CEnum" ->
            Enum(<<ReprItem("C")>>, <<Variant("A", NoDisc, <<>>),
                                      Variant("B", NoDisc, <<>>)>>)
      [] n = "BareEnum" -> Enum(<<>>, <<Variant("A", NoDisc, <<>>)>>)
      [] n = "Packed" ->
            Struct(<<ReprItem("C"), ReprItem("packed")>>,
                   <<Field("a", Ty("u8"), <<>>), Field("b", Ty("u32"), <<>>)>>)
      [] n = "Plain" -> Struct(<<>>, <<Field("a", Ty("u8"), <<>>)>>)
      [] n = "Twice" ->
            Struct(<<ReprItem("C")>>,
                   <<Field("a", Ty("u8"), <<IffiWith(Ty("u8")), IffiWith(Ty("u8"))>>)>>)
      [] n = "Odd" ->
            Struct(<<ReprItem("C")>>,
                   <<Field("a", Ty("u8"), <<IffiParam("skip")>>)>>)
      [] n = "Raw" ->
            Struct(<<ReprItem("C")>>,
                   <<Field("a", Ty("u8"), <<>>),
                     Field("b", MaybeInvalid(Ty("NonZeroU8")), <<>>)>>)
      [] n = "Outer" ->
            Struct(<<ReprItem("C")>>,
                   <<Field("", Ty("Raw"), <<>>), Field("", Ty("u16"), <<>>)>>)
      [] n = "Holder" ->
            Struct(<<ReprItem("C")>>, <<Field("", Ty("Pair"), <<>>)>>)
      [] n = "Never" -> Enum(<<>>, <<>>)
      [] n = "Void" ->
            Struct(<<ReprItem("C")>>, <<Field("", Ty("Never"), <<>>)>>)
      [] n = "Choice" ->
            Enum(<<ReprItem("u8")>>,
                 <<Variant("A", NoDisc, <<>>),
                   Variant("B", NoDisc, <<Field("", Ty("u8"), <<>>)>>)>>)

FieldTypes(fields) == [i \in 1..Len(fields) |-> fields[i].ty]

----------------------------------------------------------------------------------------------------------------------------------------
(* The layout the compiler gives a declared type: repr(C) structs, enums   *)
(* with a primitive repr (a union of repr(C) structs, each led by the      *)
(* tag), and enums with repr(C, int) (the tag, then a union of the         *)
(* variants' repr(C) payload structs).                                     *)

MaxOf(S) == IF S = {} THEN 0 ELSE CHOOSE m \in S : \A x \in S : x <= m

HasRepr(decl, id) == \E i \in 1..Len(decl.reprs) : decl.reprs[i].id = id

DeclaredAlign(decl) ==
    MaxOf({1} \cup {decl.reprs[i].n : i \in {j \in 1..Len(decl.reprs) :
                                                decl.reprs[j].id = "align"}})

DeclaredInt(decl) == CHOOSE id \in IntTypes : HasRepr(decl, id)

\* The field types of each variant, led by the tag type when lead is set.
VariantTypes(decl, lead) ==
    {(IF lead THEN <<Ty(DeclaredInt(decl))>> ELSE <<>>)
        \o FieldTypes(decl.variants[v].fields) : v \in 1..Len(decl.variants)}

RECURSIVE SizeOf(_), AlignOf(_), OffsetsC(_, _, _), OffsetsFrom(_, _, _)

\* Field offsets of a repr(C) struct from field i on, cur bytes used.
OffsetsC(tys, i, cur) ==
    IF i > Len(tys) THEN <<>>
    ELSE OffsetsFrom(tys, i, RoundUp(cur, AlignOf(tys[i])))

OffsetsFrom(tys, i, off) ==
    <<off>> \o OffsetsC(tys, i + 1, off + SizeOf(tys[i]))

LastEnd(tys, offs) ==
    IF tys = <<>> THEN 0 ELSE offs[Len(tys)] + SizeOf(tys[Len(tys)])

\* Where the last field of a repr(C) struct ends.
EndC(tys) == LastEnd(tys, OffsetsC(tys, 1, 0))

AlignC(tys) == MaxOf({1} \cup {AlignOf(tys[i]) : i \in 1..Len(tys)})

\* repr(C, int): where the payload union starts.
PayloadOffset(decl) ==
    RoundUp(IntSize[DeclaredInt(decl)],
            MaxOf({AlignC(tys) : tys \in VariantTypes(decl, FALSE)}))

DeclAlign(decl) ==
    Max(DeclaredAlign(decl),
        IF decl.data = "struct" THEN AlignC(FieldTypes(decl.fields))
        ELSE MaxOf({AlignC(tys) : tys \in VariantTypes(decl, TRUE)}))

DeclEnd(decl) ==
    IF decl.data = "struct" THEN EndC(FieldTypes(decl.fields))
    ELSE IF HasRepr(decl, "C")
    THEN PayloadOffset(decl) + MaxOf({EndC(tys) : tys \in VariantTypes(decl, FALSE)})
    ELSE MaxOf({EndC(tys) : tys \in VariantTypes(decl, TRUE)})

AlignOf(t) ==
    IF IsMaybeInvalid(t) THEN AlignOf(Inner(t))
    ELSE IF t[1] \in IntTypes THEN IntSize[t[1]]
    ELSE IF t[1] \in NonZeroTypes THEN IntSize[NonZeroOf[t[1]]]
    ELSE DeclAlign(DeclOf(t[1]))

SizeOf(t) ==
    IF IsMaybeInvalid(t) THEN SizeOf(Inner(t))
    ELSE IF t[1] \in IntTypes THEN IntSize[t[1]]
    ELSE IF t[1] \in NonZeroTypes THEN IntSize[NonZeroOf[t[1]]]
    ELSE RoundUp(DeclEnd(DeclOf(t[1])), AlignOf(t))

Shift(offs, by) == [i \in 1..Len(offs) |-> offs[i] + by]

\* Where the compiler puts the fields of a struct (v = 0) or of variant v.
DeclOffsets(decl, v) ==
    IF decl.data = "struct" THEN OffsetsC(FieldTypes(decl.fields), 1, 0)
    ELSE IF HasRepr(decl, "C")
    THEN Shift(OffsetsC(FieldTypes(decl.variants[v].fields), 1, 0),
               PayloadOffset(decl))
    ELSE Tail(OffsetsC(<<Ty(DeclaredInt(decl))>>
                          \o FieldTypes(decl.variants[v].fields), 1, 0))

RealOffsets(t, v) == DeclOffsets(DeclOf(t[1]), v)

----------------------------------------------------------------------------
(* The Iffi derive (src/macros): what it generates for a declaration.      *)

DefaultSuperset == [kind |-> "Default", ty |-> <<>>]

RECURSIVE from_attrs_loop(_, _, _)

\* FieldData::from_attrs: the superset an #[iffi(..)] attribute list names.
from_attrs_loop(attrs, i, superset) ==
    IF i > Len(attrs) THEN [ok |-> TRUE, err |-> "", superset |-> superset]
    ELSE IF attrs[i].param = "with"
    THEN IF superset.kind = "Default"
         THEN from_attrs_loop(attrs, i + 1, [kind |-> "Type", ty |-> attrs[i].ty])
         ELSE [ok |-> FALSE, err |-> "conflicting iffi(with) attributes",
               superset |-> superset]
    ELSE [ok |-> FALSE, err |-> "unknown attribute parameter", superset |-> superset]

from_attrs(attrs) == from_attrs_loop(attrs, 1, DefaultSuperset)

\* A faulty field_def: the with-override is ignored.
field_proxy_default(field, data) ==
    [ok |-> data.ok, err |-> data.err,
     field |-> Field(field.ident, MaybeInvalid(field.ty), <<>>)]

\* fields_def::field_def, after from_attrs: the field with its type widened
\* to its universe.
field_proxy(field, data) ==
    [ok |-> data.ok, err |-> data.err,
     field |-> Field(field.ident,
                     IF data.superset.kind = "Default"
                     THEN MaybeInvalid(field.ty) ELSE data.superset.ty,
                     <<>>)]

field_def(field) == field_proxy(field, from_attrs(field.attrs))

First(S) == CHOOSE i \in S : \A j \in S : i <= j

\* The collect::<Result<_, _>>() of fields_def: the first error wins.
collect_fields(defs) ==
    IF \A i \in 1..Len(defs) : defs[i].ok
    THEN [ok |-> TRUE, err |-> "",
          fields |-> [i \in 1..Len(defs) |-> defs[i].field]]
    ELSE [ok |-> FALSE,
          err |-> defs[First({i \in 1..Len(defs) : ~defs[i].ok})].err,
          fields |-> <<>>]

fields_def(fields) ==
    collect_fields([i \in 1..Len(fields) |-> field_def(fields[i])])

\* sanitize_fields: every variant field gets the name field_<member>.
sanitize_fields(fields) ==
    [i \in 1..Len(fields) |->
        Field("field_" \o (IF fields[i].ident = "" THEN ToString(i - 1)
                           ELSE fields[i].ident),
              fields[i].ty, fields[i].attrs)]

\* A faulty fields_check: the checks come out last field first.
fields_check_reversed(proxy_fields, real_fields) ==
    [i \in 1..Min(Len(proxy_fields), Len(real_fields)) |->
        [ident    |-> proxy_fields[Len(proxy_fields) + 1 - i].ident,
         index    |-> Len(proxy_fields) - i,
         proxy_ty |-> proxy_fields[Len(proxy_fields) + 1 - i].ty,
         real_ty  |-> real_fields[Len(real_fields) + 1 - i].ty]]

\* fields_check: one check per zipped (proxy, real) pair, in order.  The
\* access is the name of the proxy field, or its index when it has none.
fields_check(proxy_fields, real_fields) ==
    [i \in 1..Min(Len(proxy_fields), Len(real_fields)) |->
        [ident    |-> proxy_fields[i].ident,
         index    |-> i - 1,
         proxy_ty |-> proxy_fields[i].ty,
         real_ty  |-> real_fields[i].ty]]

NoRepr == [repr |-> "none", enum_repr |-> "", align |-> 0, err |-> ""]

\* A faulty closure: packed passes like any unknown item.
parse_nested_meta_packed(st, item) ==
    IF item.id = "C" THEN [st EXCEPT !.repr = "C"]
    ELSE IF item.id = "transparent" THEN [st EXCEPT !.repr = "transparent"]
    ELSE IF item.id = "align" THEN [st EXCEPT !.align = item.n]
    ELSE IF item.id \in IntTypes
    THEN [st EXCEPT !.repr = "C", !.enum_repr = item.id]
    ELSE st

\* impl_iffi, the closure run on one #[repr(..)] item.
parse_nested_meta(st, item) ==
    IF item.id = "C" THEN [st EXCEPT !.repr = "C"]
    ELSE IF item.id = "transparent" THEN [st EXCEPT !.repr = "transparent"]
    ELSE IF item.id = "align" THEN [st EXCEPT !.align = item.n]
    ELSE IF item.id = "packed"
    THEN [st EXCEPT !.err = "Iffi does not support repr(packed)!"]
    ELSE IF item.id \in IntTypes
    THEN [st EXCEPT !.repr = "C", !.enum_repr = item.id]
    ELSE st

RECURSIVE parse_repr(_, _, _)

\* impl_iffi, the loop over the #[repr(..)] items: an error ends it.
parse_repr(reprs, i, st) ==
    IF i > Len(reprs) \/ st.err # "" THEN st
    ELSE parse_repr(reprs, i + 1, parse_nested_meta(st, reprs[i]))

MISSING_REPR_ERR == "Expected type to be repr(C) or repr(transparent)"

UNION_ERR == "Iffi does not support unions!"

ENUM_REPR_ERR == "enums require a primitive representation"

TagField(discriminant_type) == Field("tag", Ty(discriminant_type), <<>>)

\* impl_iffi, Data::Enum: a per-variant shadow struct, the tag inserted
\* before the widened fields.
variant_struct(defs, discriminant_type) ==
    [ok |-> defs.ok, err |-> defs.err,
     fields |-> <<TagField(discriminant_type)>> \o defs.fields]

variant_structs(variants, discriminant_type) ==
    [v \in 1..Len(variants) |->
        variant_struct(fields_def(sanitize_fields(variants[v].fields)),
                       discriminant_type)]

\* The first assignment of base_discriminant_expr and discriminant_offset.
match_arms_init == [base |-> Lit(0), offset |-> 0]

\* One turn of the match_arms loop: an explicit discriminant replaces the
\* base expression and zeroes the offset.
match_arms_enter(st, variant) ==
    IF variant.disc.kind # "none" THEN [base |-> variant.disc, offset |-> 0]
    ELSE st

RECURSIVE match_arms(_, _, _, _), match_arms_push(_, _, _, _)

\* impl_iffi, the match_arms loop: for each variant the pair
\* (base_discriminant_expr, discriminant_offset) and its field checks.
match_arms(variants, structs, v, st) ==
    IF v > Len(variants) THEN <<>>
    ELSE match_arms_push(variants, structs, v, match_arms_enter(st, variants[v]))

match_arms_push(variants, structs, v, now) ==
    <<[base   |-> now.base,
       offset |-> now.offset,
       checks |-> fields_check(Tail(structs[v].fields),
                               sanitize_fields(variants[v].fields))]>>
    \o match_arms(variants, structs, v + 1, [now EXCEPT !.offset = now.offset + 1])

NoImpl(err) ==
    [ok |-> FALSE, err |-> err, data |-> "", layout |-> "", align |-> 0,
     discriminant_type |-> "", shadow |-> <<>>, checks |-> <<>>, arms |-> <<>>]

\* impl_iffi, Data::Struct.
impl_struct(decl, parsed, defs) ==
    IF ~defs.ok THEN NoImpl(defs.err)
    ELSE [ok |-> TRUE, err |-> "", data |-> "struct",
          layout |-> parsed.repr, align |-> parsed.align,
          discriminant_type |-> "",
          shadow |-> <<defs.fields>>,
          checks |-> fields_check(defs.fields, decl.fields),
          arms |-> <<>>]

\* impl_iffi, Data::Enum.
impl_enum(decl, parsed, structs) ==
    IF \E v \in 1..Len(structs) : ~structs[v].ok
    THEN NoImpl(structs[First({v \in 1..Len(structs) : ~structs[v].ok})].err)
    ELSE [ok |-> TRUE, err |-> "", data |-> "enum",
          layout |-> parsed.repr, align |-> parsed.align,
          discriminant_type |-> parsed.enum_repr,
          shadow |-> [v \in 1..Len(structs) |-> structs[v].fields],
          checks |-> <<>>,
          arms |-> match_arms(decl.variants, structs, 1, match_arms_init)]

\* The alignment of the generated union Variants: #repr carries the align
\* of the input, its members are the repr(C) shadow structs.
Variants_align(g) ==
    Max(Max(g.align, 1),
        MaxOf({AlignC(FieldTypes(g.shadow[v])) : v \in 1..Len(g.shadow)}))

\* The size of the generated union Variants.
Variants_size(g) ==
    RoundUp(MaxOf({EndC(FieldTypes(g.shadow[v])) : v \in 1..Len(g.shadow)}),
            Variants_align(g))

\* impl_iffi, after the repr items are parsed.
impl_data(decl, parsed) ==
    IF parsed.err # "" THEN NoImpl(parsed.err)
    ELSE IF parsed.repr = "none" THEN NoImpl(MISSING_REPR_ERR)
    ELSE IF decl.data = "struct"
    THEN impl_struct(decl, parsed, fields_def(decl.fields))
    ELSE IF decl.data = "enum"
    THEN IF parsed.enum_repr = "" THEN NoImpl(ENUM_REPR_ERR)
         ELSE impl_enum(decl, parsed,
                        variant_structs(decl.variants, parsed.enum_repr))
    ELSE NoImpl(UNION_ERR)

\* impl_iffi: the generated implementation, or the error.
impl_iffi(decl) == impl_data(decl, parse_repr(decl.reprs, 1, NoRepr))

----------------------------------------------------------------------------
(* The Nicheless derive (src/macros/src/nicheless.rs).                     *)

\* A faulty fields_are_nicheless: the last field gets no call.
fields_are_nicheless_but_last(fields) ==
    [i \in 1..(Len(fields) - 1) |-> [ident |-> fields[i].ident, index |-> i - 1]]

\* fields_are_nicheless: one call nicheless(value.#member) per field, the
\* member being the name of the field, or its index when it has none.
fields_are_nicheless(fields) ==
    [i \in 1..Len(fields) |-> [ident |-> fields[i].ident, index |-> i - 1]]

NoAssertion(err) ==
    [ok |-> FALSE, err |-> err, kind |-> "", scrutinee |-> <<>>,
     calls |-> <<>>, arms |-> <<>>]

\* A faulty enum assertion: the match is on the value.
impl_nicheless_on_value(item) ==
    IF item.data = "struct"
    THEN [ok |-> TRUE, err |-> "", kind |-> "struct", scrutinee |-> <<>>,
          calls |-> fields_are_nicheless(item.fields), arms |-> <<>>]
    ELSE IF item.data = "enum"
    THEN [ok |-> TRUE, err |-> "", kind |-> "enum", scrutinee |-> <<"value">>,
          calls |-> <<>>,
          arms |-> [v \in 1..Len(item.variants) |->
                      [variant |-> item.variants[v].ident,
                       calls   |-> fields_are_nicheless(item.variants[v].fields)]]]
    ELSE NoAssertion(UNION_ERR)

\* impl_nicheless: the assertion generated before the marker impl.  For
\* an enum it is `match { arms }`, a match that names no scrutinee.
impl_nicheless(item) ==
    IF item.data = "struct"
    THEN [ok |-> TRUE, err |-> "", kind |-> "struct", scrutinee |-> <<>>,
          calls |-> fields_are_nicheless(item.fields), arms |-> <<>>]
    ELSE IF item.data = "enum"
    THEN [ok |-> TRUE, err |-> "", kind |-> "enum", scrutinee |-> <<>>,
          calls |-> <<>>,
          arms |-> [v \in 1..Len(item.variants) |->
                      [variant |-> item.variants[v].ident,
                       calls   |-> fields_are_nicheless(item.variants[v].fields)]]]
    ELSE NoAssertion(UNION_ERR)

RECURSIVE has_marker(_), compiles(_, _)

\* value.#member: the field the member names.
member_index(fields, call) ==
    IF call.ident # ""
    THEN CHOOSE j \in 1..Len(fields) : fields[j].ident = call.ident
    ELSE call.index + 1

\* fn nicheless(n: impl iffi::Nicheless): the calls on the fields of value
\* compile when the type of each is Nicheless.
calls_compile(fields, calls) ==
    \A i \in 1..Len(calls) : has_marker(fields[member_index(fields, calls[i])].ty)

\* Whether the expansion compiles, so that the marker impl it ends with
\* exists.  A match without a scrutinee does not parse; with one, an arm
\* #ident::#variant is a pattern of a variant without fields only.
compiles(item, out) ==
    /\ out.ok
    /\ IF out.kind = "struct" THEN calls_compile(item.fields, out.calls)
       ELSE /\ out.scrutinee # <<>>
            /\ \A v \in 1..Len(out.arms) :
                  item.variants[v].fields = <<>> /\ out.arms[v].calls = <<>>

\* T: Nicheless, for the types of a program whose declarations all carry
\* #[derive(Nicheless)].
has_marker(t) ==
    IF IsMaybeInvalid(t) \/ t[1] \in IntTypes THEN TRUE
    ELSE IF t[1] \in NonZeroTypes THEN FALSE
    ELSE compiles(ItemOf(t[1]), impl_nicheless(ItemOf(t[1])))

\* derive_nicheless: the expansion, and whether the marker impl exists.
derive_nicheless(item, out) ==
    [ok |-> out.ok, err |-> out.err, kind |-> out.kind,
     scrutinee |-> out.scrutinee, calls |-> out.calls, arms |-> out.arms,
     marker |-> compiles(item, out)]

----------------------------------------------------------------------------
(* The validators: Iffi::can_transmute of every implementation.            *)
(* A validator returns [ok, err, log]; log lists the validators invoked,   *)
(* in call order, each as [ty, uni, depth], depth 0 being the one called.  *)

Ok(log) == [ok |-> TRUE, err |-> NoError, log |-> log]

Err(e, log) == [ok |-> FALSE, err |-> e, log |-> log]

\* The Nicheless implementations the model uses: integers and MaybeInvalid.
\* impl_one_niche_bulk!: the NonZero types that are OneNiche.
OneNiche(t) ==
    /\ ~IsMaybeInvalid(t)
    /\ t[1] \in {"NonZeroU8", "NonZeroU16", "NonZeroU32", "NonZeroU64", "NonZeroU128",
                 "NonZeroI8", "NonZeroI16", "NonZeroI32", "NonZeroI64", "NonZeroI128"}

\* unsafe impl<T: OneNiche> Nicheless for Option<T>
Option_Nicheless(t) == OneNiche(t)

Nicheless(t) == IsMaybeInvalid(t) \/ t[1] \in IntTypes

IsNonZero(t) == ~IsMaybeInvalid(t) /\ t[1] \in NonZeroTypes

IsDerived(t) == ~IsMaybeInvalid(t) /\ t[1] \in UserTypes

\* Which implementation of Iffi<u> for t the compiler selects.
Iffi_impl(t, u) ==
    IF t = u /\ Nicheless(u) THEN "reflexive"
    ELSE IF u = MaybeInvalid(t) /\ Nicheless(t) THEN "wrapper"
    ELSE IF IsNonZero(t) /\ u = Ty(NonZeroOf[t[1]]) THEN "nonzero"
    ELSE IF IsNonZero(t) /\ u = MaybeInvalid(t) THEN "nonzero_wrapper"
    ELSE IF IsDerived(t) /\ u = MaybeInvalid(t) /\ impl_iffi(DeclOf(t[1])).ok
    THEN "derived"
    ELSE "none"

\* A faulty closure error: the valid range starts at zero.
nonzero_error_from_zero(SIZE) ==
    InvalidBitPattern(
        BitPattern_from_le(Zeros(SIZE)),
        BitRanges_from_le(<<[start |-> Zeros(SIZE), end |-> Ones(SIZE)]>>))

\* impl_nonzero_map!, the closure: the error of a zero value.
nonzero_error(SIZE) ==
    InvalidBitPattern(
        BitPattern_from_le(Zeros(SIZE)),
        BitRanges_from_le(<<[start |-> <<1>> \o Zeros(SIZE - 1),
                             end   |-> Ones(SIZE)]>>))

\* impl_nonzero_map!, the closure |num| (*num != 0)...
nonzero_cb(SIZE, num) ==
    IF num # Zeros(SIZE) THEN [ok |-> TRUE, kind |-> NoErrorKind]
    ELSE [ok |-> FALSE, kind |-> nonzero_error(SIZE)]

\* cb(universe).map_err(Error::new::<$ty, U>)
map_err(ty, u, r) ==
    IF r.ok THEN Ok(<<>>) ELSE Err(Error_new(ty, u, r.kind), <<>>)

\* impl_nonzero_map!, from_universe::<u>.
from_universe(ty, u, universe) ==
    map_err(ty, u, nonzero_cb(IntSize[NonZeroOf[ty[1]]], FromMem(universe)))

\* Where a generated shadow struct (repr(C)) keeps its fields.
ShadowOffsets(fields) == OffsetsC(FieldTypes(fields), 1, 0)

\* superset.#access: the position of the accessed field in the shadow.
AccessIndex(fields, check) ==
    IF check.ident # ""
    THEN CHOOSE j \in 1..Len(fields) : fields[j].ident = check.ident
    ELSE check.index + 1

ReadAt(mem, at, n) == SubSeq(mem, at + 1, at + n)

\* &superset.#access: the bytes of the accessed field.
field_ref(fields, check, superset) ==
    ReadAt(superset, ShadowOffsets(fields)[AccessIndex(fields, check)],
           SizeOf(check.proxy_ty))

\* The constant the tokens `#base_discriminant_expr + #offset` denote: the
\* expression is spliced unparenthesised, and + binds tighter than <<.
const_EXPR(base, offset) ==
    IF base.kind = "shl" THEN base.a * 2 ^ (base.b + offset)
    ELSE base.a + offset

\* Error::new::<Self, MaybeInvalid<Self>>(InvalidEnumDiscriminant(..))
tag_error(t, v) ==
    Err(Error_new(t, MaybeInvalid(t),
                  InvalidEnumDiscriminant(BitPattern_from_le(to_le_bytes(v)))),
        <<>>)

WithLog(log, r) == [r EXCEPT !.log = log \o r.log]

RECURSIVE can_transmute(_, _, _), run_checks(_, _, _, _), question_mark(_, _, _, _, _)

\* The statements fields_check generates: each check in order.
run_checks(checks, i, fields, superset) ==
    IF i > Len(checks) THEN Ok(<<>>)
    ELSE question_mark(can_transmute(checks[i].real_ty, checks[i].proxy_ty,
                                     field_ref(fields, checks[i], superset)),
                       checks, i, fields, superset)

\* The `?` after a check: its error ends the run, else the next check.
question_mark(r, checks, i, fields, superset) ==
    IF ~r.ok THEN r
    ELSE WithLog(r.log, run_checks(checks, i + 1, fields, superset))

\* A faulty struct body: only the first field is checked.
derived_struct_first_only(g, t, superset) ==
    run_checks(SubSeq(g.checks, 1, Min(1, Len(g.checks))), 1, g.shadow[1], superset)

\* A faulty struct body: the checks are emitted twice over.
derived_struct_twice(g, t, superset) ==
    run_checks(g.checks \o g.checks, 1, g.shadow[1], superset)

\* The body the derive generates for a struct.
derived_struct(g, t, superset) == run_checks(g.checks, 1, g.shadow[1], superset)

\* The generated match: the first arm whose constant equals the tag runs
\* its checks on its shadow struct; no arm, the error carries the tag.
match_tag(g, t, superset, tag, hits) ==
    IF hits # {}
    THEN run_checks(g.arms[First(hits)].checks, 1, g.shadow[First(hits)], superset)
    ELSE tag_error(t, tag)

ArmsEqual(g, tag) ==
    {v \in 1..Len(g.arms) :
        tag = LEBytes(const_EXPR(g.arms[v].base, g.arms[v].offset),
                      IntSize[g.discriminant_type])}

read_tag(g, superset) == FromMem(ReadAt(superset, 0, IntSize[g.discriminant_type]))

match_on(g, t, superset, tag) == match_tag(g, t, superset, tag, ArmsEqual(g, tag))

\* The body the derive generates for an enum.
derived_enum(g, t, superset) == match_on(g, t, superset, read_tag(g, superset))

derived(g, t, superset) ==
    IF g.data = "struct" THEN derived_struct(g, t, superset)
    ELSE derived_enum(g, t, superset)

\* A faulty wrapper implementation: it rejects the all-zero pattern.
dispatch_rejecting_zero(impl, t, u, superset) ==
    CASE impl = "reflexive" -> Ok(<<>>)
      [] impl = "wrapper" ->
            IF superset = Zeros(Len(superset))
            THEN Err(Error_new(t, u, nonzero_error(Len(superset))), <<>>)
            ELSE Ok(<<>>)
      [] impl = "nonzero" -> from_universe(t, u, superset)
      [] impl = "nonzero_wrapper" -> from_universe(t, u, superset)
      [] impl = "derived" -> derived(impl_iffi(DeclOf(t[1])), t, superset)

dispatch(impl, t, u, superset) ==
    CASE impl = "reflexive" -> Ok(<<>>)
      [] impl = "wrapper" -> Ok(<<>>)
      [] impl = "nonzero" -> from_universe(t, u, superset)
      [] impl = "nonzero_wrapper" -> from_universe(t, u, superset)
      [] impl = "derived" -> derived(impl_iffi(DeclOf(t[1])), t, superset)

\* The log of a call: the callee, then what it invoked, one level deeper.
Called(t, u, r) ==
    [r EXCEPT !.log = <<[ty |-> t, uni |-> u, depth |-> 0]>>
                      \o [i \in 1..Len(r.log) |->
                             [r.log[i] EXCEPT !.depth = r.log[i].depth + 1]]]

\* A faulty validator with a memory: once it has been asked, it answers Ok.
can_transmute_once(t, u, superset) ==
    IF steps # <<>> THEN Called(t, u, Ok(<<>>))
    ELSE Called(t, u, dispatch(Iffi_impl(t, u), t, u, superset))

can_transmute(t, u, superset) ==
    Called(t, u, dispatch(Iffi_impl(t, u), t, u, superset))

----------------------------------------------------------------------------
(* The conversion entry points of src/src/lib.rs.                          *)

\* transmute::transmute: the same bytes at another type.
transmute(value) == value

\* A faulty try_from: it reinterprets whatever the validator returned.
try_from_unchecked(t, u, value, r) ==
    [ok |-> TRUE, err |-> NoError, value |-> transmute(value), log |-> r.log,
     did |-> <<"can_transmute", "debug_assert_eq", "transmute">>]

\* try_from, after T::can_transmute(&value) returned r.
try_from_checked(t, u, value, r) ==
    IF ~r.ok
    THEN [ok |-> FALSE, err |-> r.err, value |-> <<>>, log |-> r.log,
          did |-> <<"can_transmute">>]
    ELSE IF SizeOf(u) # SizeOf(t)
    THEN [ok |-> FALSE, err |-> NoError, value |-> <<>>, log |-> r.log,
          did |-> <<"can_transmute", "panic">>]
    ELSE [ok |-> TRUE, err |-> NoError, value |-> transmute(value), log |-> r.log,
          did |-> <<"can_transmute", "debug_assert_eq", "transmute">>]

try_from(t, u, value) == try_from_checked(t, u, value, can_transmute(t, u, value))

\* A faulty into: it clears the value it hands over.
into_cleared(t, u, safe) ==
    [ok |-> TRUE, value |-> Zeros(Len(safe)),
     did |-> <<"debug_assert_eq", "transmute">>]

\* A faulty into: its assertion compares the size of U with the alignment
\* of the value.
into_asserting_align(t, u, safe) ==
    IF SizeOf(u) # AlignOf(t)
    THEN [ok |-> FALSE, value |-> <<>>, did |-> <<"panic">>]
    ELSE [ok |-> TRUE, value |-> transmute(safe),
          did |-> <<"debug_assert_eq", "transmute">>]

into(t, u, safe) ==
    IF SizeOf(u) # SizeOf(t)
    THEN [ok |-> FALSE, value |-> <<>>, did |-> <<"panic">>]
    ELSE [ok |-> TRUE, value |-> transmute(safe),
          did |-> <<"debug_assert_eq", "transmute">>]

----------------
(* The values the callers hold.                                            *)

MaxBit == 1

\* How many times a caller validates one value before converting it.
MaxCalls == 2

\* How many bytes past the capacity of a pattern the longest Pod value has.
MaxPast == 1

\* The non-zero bytes the inputs are built from.
SampleBytes == {2 ^ k : k \in 0..MaxBit} \cup {255}

\* The bytes the compiler may leave in padding.
PadBytes == {0, 255}

\* Memory images of an n-byte integer: zero, all ones, one non-zero byte.
IntSamples(n) ==
    {Zeros(n), Ones(n)}
    \cup {[k \in 1..n |-> IF k = i THEN b ELSE 0] : i \in 1..n, b \in SampleBytes}

\* The tags a foreign caller may hand over, as numbers.
TagNumbers == {0, 1, 2, 3, 4, 5, 8, 150, 151, 152, 255, 406}

\* The value of a discriminant expression.
disc_value(e) == IF e.kind = "shl" THEN e.a * 2 ^ e.b ELSE e.a

RECURSIVE discriminant(_, _)

\* The discriminant the language gives variant v: its explicit
\* expression, else the previous one plus one, from zero.
discriminant(variants, v) ==
    IF variants[v].disc.kind # "none" THEN disc_value(variants[v].disc)
    ELSE IF v = 1 THEN 0
    ELSE discriminant(variants, v - 1) + 1

Overwrite(img, off, sub) ==
    [k \in 1..Len(img) |->
        IF off < k /\ k <= off + Len(sub) THEN sub[k - off] ELSE img[k]]

RECURSIVE ValuesOf(_, _, _), Place(_, _, _, _, _, _)

\* Every image of acc with the fields i.. written at their offsets.
Place(tys, offs, i, raw, pad, acc) ==
    IF i > Len(tys) THEN acc
    ELSE Place(tys, offs, i + 1, raw, pad,
               {Overwrite(img, offs[i], sub) :
                    img \in acc, sub \in ValuesOf(tys[i], raw, pad)})

\* Memory images of type t with padding bytes pad: the well-defined values
\* of t, or (raw) images whose fields and tag need not be valid.
ValuesOf(t, raw, pad) ==
    IF IsMaybeInvalid(t) THEN ValuesOf(Inner(t), TRUE, pad)
    ELSE IF t[1] \in IntTypes THEN IntSamples(IntSize[t[1]])
    ELSE IF t[1] \in NonZeroTypes
    THEN LET n == IntSize[NonZeroOf[t[1]]] IN
         IF raw THEN IntSamples(n) ELSE IntSamples(n) \ {Zeros(n)}
    ELSE LET decl  == DeclOf(t[1])
             blank == [k \in 1..SizeOf(t) |-> pad]
         IN  IF decl.data = "struct"
             THEN Place(FieldTypes(decl.fields), RealOffsets(t, 0), 1, raw, pad,
                        {blank})
             ELSE LET w == IntSize[DeclaredInt(decl)]
                      tags(v) ==
                          IF raw
                          THEN {ToMem(LEBytes(k, w)) :
                                    k \in {x \in TagNumbers : w > 1 \/ x < 256}}
                          ELSE {ToMem(LEBytes(discriminant(decl.variants, v), w))}
                  IN  UNION {Place(FieldTypes(decl.variants[v].fields),
                                   RealOffsets(t, v), 1, raw, pad,
                                   {Overwrite(blank, 0, tag) : tag \in tags(v)}) :
                                v \in 1..Len(decl.variants)}

\* The variant a well-defined enum value is in.
ActiveVariant(t, mem) ==
    LET decl == DeclOf(t[1])
        w    == IntSize[DeclaredInt(decl)]
    IN  CHOOSE v \in 1..Len(decl.variants) :
            FromMem(SubSeq(mem, 1, w)) = LEBytes(discriminant(decl.variants, v), w)

RECURSIVE Fields(_, _)

\* What derive(PartialEq, Debug) sees of a well-defined value: the tag and
\* the fields, not the padding.
Fields(t, mem) ==
    IF IsMaybeInvalid(t) \/ t[1] \in IntTypes \/ t[1] \in NonZeroTypes THEN mem
    ELSE LET decl == DeclOf(t[1])
             v    == IF decl.data = "struct" THEN 0 ELSE ActiveVariant(t, mem)
             tys  == IF v = 0 THEN FieldTypes(decl.fields)
                     ELSE FieldTypes(decl.variants[v].fields)
             offs == RealOffsets(t, v)
         IN  [variant |-> v,
              fields  |-> [i \in 1..Len(tys) |->
                              Fields(tys[i],
                                     SubSeq(mem, offs[i] + 1,
                                            offs[i] + SizeOf(tys[i])))]]

\* The Nicheless types tried as their own universe.
Universes ==
    {Ty(n) : n \in IntTypes}
    \cup {MaybeInvalid(Ty("NonZeroU16")), MaybeInvalid(Ty("Pair")),
          MaybeInvalid(MaybeInvalid(Ty("NonZeroU8")))}

\* The (subset, universe) pairs the callers convert between.
Pairs ==
    {p \in {<<u, u>> : u \in Universes}
           \cup {<<u, MaybeInvalid(u)>> : u \in Universes}
           \cup {<<Ty(n), Ty(NonZeroOf[n])>> : n \in NonZeroTypes}
           \cup {<<Ty(n), MaybeInvalid(Ty(n))>> : n \in NonZeroTypes \cup UserTypes} :
        Iffi_impl(p[1], p[2]) # "none"}

----------------------------------------------------------------------------
(* MaybeInvalid<T> (src/src/maybe_invalid.rs).                             *)

RECURSIVE DataBytes(_)

\* The offsets of the bytes of t that are not padding.
DataBytes(t) ==
    IF IsMaybeInvalid(t) THEN DataBytes(Inner(t))
    ELSE IF t[1] \in IntTypes \/ t[1] \in NonZeroTypes THEN 0..(SizeOf(t) - 1)
    ELSE IF DeclOf(t[1]).data = "struct"
    THEN UNION {{RealOffsets(t, 0)[i] + k : k \in DataBytes(DeclOf(t[1]).fields[i].ty)} :
                    i \in 1..Len(DeclOf(t[1]).fields)}
    ELSE 0..(SizeOf(t) - 1)

\* A move or copy of a MaybeUninit<t>, or of a t: the bytes that are not
\* padding of t arrive, the padding bytes need not.
typed_copy(t, mem, pad) ==
    [k \in 1..Len(mem) |-> IF (k - 1) \in DataBytes(t) THEN mem[k] ELSE pad]

\* MaybeInvalid::new(valid)
MaybeInvalid_new(t, valid, pad) == typed_copy(t, valid, pad)

\* MaybeInvalid::zeroed(): MaybeUninit::zeroed(), returned by value.
MaybeInvalid_zeroed(t, pad) == typed_copy(t, Zeros(SizeOf(t)), pad)

\* as_bytes: size_of::<Self>() bytes from as_ptr().
as_bytes(t, mem) == SubSeq(mem, 1, SizeOf(MaybeInvalid(t)))

\* assume_valid: MaybeUninit::assume_init.
assume_valid(t, mem, pad) == typed_copy(t, mem, pad)

\* into_inner, for t: Nicheless.
into_inner(t, mem, pad) == assume_valid(t, mem, pad)

\* get, for t: Nicheless: a reference to the value in place.
get(t, mem) == mem

\* The Nicheless types wrapped: an integer, a wrapper and a struct.
WrapTypes ==
    {t \in {Ty("u16"), MaybeInvalid(Ty("NonZeroU16")), Ty("Padded")} :
        has_marker(t)}

----------------------------------------------------------------------------
(* The callers: a session is one value taken through into and try_from,    *)
(* or one universe value handed to try_from or to can_transmute.           *)

NoResult == [ok |-> FALSE, err |-> NoError, value |-> <<>>, log |-> <<>>]

NoOutput == NoImpl("")

\* A caller holding a value to convert or to validate.
InitConvert ==
    /\ \E p \in Pairs : T = p[1] /\ U = p[2]
    /\ \E pad \in PadBytes :
          arg \in {[of |-> "T", mem |-> m] : m \in ValuesOf(T, FALSE, pad)}
                  \cup {[of |-> "U", mem |-> m] : m \in ValuesOf(U, FALSE, pad)}
    /\ pc = "start"

\* A declaration carrying a derive.
InitDerive ==
    /\ T \in {Ty(n) : n \in UserTypes \cup OtherItems}
    /\ U = <<>>
    /\ arg = [of |-> "none", mem |-> <<>>]
    /\ pc = "item"

\* The Pod values a caller describes: integers, and byte arrays up to and
\* past the capacity of a pattern without alloc.
Pods ==
    {<<0>>, <<1>>, <<1, 0>>, <<0, 1>>,
     Zeros(BitPatternCap), Zeros(BitPatternCap + MaxPast),
     Zeros(BitPatternCap) \o <<1>> \o Zeros(MaxPast - 1),
     <<1>> \o Zeros(BitPatternCap + MaxPast - 1)}

\* The lists of inclusive ranges a caller describes.
RangeLists ==
    {<<>>,
     <<[start |-> <<1>>, end |-> <<255>>]>>,
     <<[start |-> <<1, 0>>, end |-> <<255, 255>>]>>,
     <<[start |-> <<0>>, end |-> <<0>>], [start |-> <<1>>, end |-> <<255>>]>>,
     <<[start |-> <<1>>, end |-> <<255>>], [start |-> <<0>>, end |-> <<0>>]>>}

\* What a caller makes an ErrorKind of: the variant and what it carries.
KindInputs ==
    {[kind |-> "NullPtr", bits |-> <<>>, valid |-> <<>>]}
    \cup {[kind |-> "InvalidEnumDiscriminant", bits |-> b, valid |-> <<>>] : b \in Pods}
    \cup {[kind |-> "InvalidBitPattern", bits |-> b, valid |-> v] :
              b \in {<<0>>, <<1, 0>>, <<0, 1>>}, v \in RangeLists}
    \cup {[kind |-> "Custom", bits |-> <<>>, valid |-> e] :
              e \in {<<"fmt::Error">>, <<"Utf8Error">>}}

\* The ErrorKind a caller makes of an input.
ErrorKind_of(in) ==
    CASE in.kind = "NullPtr" -> NullPtr
      [] in.kind = "InvalidEnumDiscriminant" ->
            InvalidEnumDiscriminant(BitPattern_from_le(in.bits))
      [] in.kind = "InvalidBitPattern" ->
            InvalidBitPattern(BitPattern_from_le(in.bits), BitRanges_from_le(in.valid))
      [] in.kind = "Custom" -> Custom(in.valid)

\* A caller about to make two ErrorKinds and to compare them; Custom needs
\* Box, which a build without alloc has not.
InitCompare ==
    /\ T = Ty("ErrorKind")
    /\ U = <<>>
    /\ arg \in {[of |-> "kinds", mem |-> <<l, r>>] : l \in KindInputs, r \in KindInputs}
    /\ alloc \/ (arg.mem[1].kind # "Custom" /\ arg.mem[2].kind # "Custom")
    /\ pc = "kinds"

\* A caller holding a value of a Nicheless type to wrap.
InitWrap ==
    /\ T \in WrapTypes
    /\ U = <<>>
    /\ \E pad \in PadBytes :
          arg \in {[of |-> "valid", mem |-> m] : m \in ValuesOf(T, FALSE, pad)}
    /\ pc = "value"

Init ==
    /\ big_endian \in BOOLEAN
    /\ alloc \in BOOLEAN
    /\ InitConvert \/ InitDerive \/ InitWrap \/ InitCompare
    /\ held = <<>>
    /\ result = NoResult
    /\ steps = <<>>
    /\ output = NoOutput

\* iffi::into(safe)
Into ==
    /\ pc = "start"
    /\ arg.of = "T"
    /\ LET r == into(T, U, arg.mem) IN
          /\ held' = r.value
          /\ steps' = Append(steps, [fn |-> "into", did |-> r.did])
          /\ pc' = IF r.ok THEN "converted" ELSE "panicked"
    /\ UNCHANGED <<big_endian, alloc, T, U, arg, result, output>>

\* iffi::try_from(value), on the caller's universe value or on into's.
TryFrom ==
    /\ \/ pc = "start" /\ arg.of = "U"
       \/ pc = "converted"
       \/ pc = "checked"
    /\ LET r == try_from(T, U, IF pc = "converted" THEN held ELSE arg.mem) IN
          /\ result' = [ok |-> r.ok, err |-> r.err, value |-> r.value, log |-> r.log]
          /\ steps' = Append(steps, [fn |-> "try_from", did |-> r.did])
          /\ pc' = "done"
    /\ UNCHANGED <<big_endian, alloc, T, U, arg, held, output>>

\* <T as Iffi<U>>::can_transmute(&value), called directly, up to MaxCalls
\* times on the value the caller keeps.
CanTransmute ==
    /\ pc \in {"start", "checked"}
    /\ arg.of = "U"
    /\ Len(steps) < MaxCalls
    /\ LET r == can_transmute(T, U, arg.mem) IN
          /\ result' = [ok |-> r.ok, err |-> r.err, value |-> <<>>, log |-> r.log]
          /\ steps' = Append(steps, [fn |-> "can_transmute", did |-> <<>>])
          /\ pc' = "checked"
    /\ UNCHANGED <<big_endian, alloc, T, U, arg, held, output>>

\* #[derive(Iffi)]: derive_iffi expands the declaration.
DeriveIffi ==
    /\ pc = "item"
    /\ output' = impl_iffi(ItemOf(T[1]))
    /\ steps' = Append(steps, [fn |-> "derive_iffi", did |-> <<>>])
    /\ pc' = "expanded"
    /\ UNCHANGED <<big_endian, alloc, T, U, arg, held, result>>

\* #[derive(Nicheless)]: derive_nicheless expands the declaration.
DeriveNicheless ==
    /\ pc = "item"
    /\ output' = derive_nicheless(ItemOf(T[1]), impl_nicheless(ItemOf(T[1])))
    /\ steps' = Append(steps, [fn |-> "derive_nicheless", did |-> <<>>])
    /\ pc' = "marked"
    /\ UNCHANGED <<big_endian, alloc, T, U, arg, held, result>>

\* MaybeInvalid::new(valid)
New ==
    /\ pc = "value"
    /\ \E pad \in PadBytes : held' = MaybeInvalid_new(T, arg.mem, pad)
    /\ steps' = Append(steps, [fn |-> "new", did |-> <<>>])
    /\ pc' = "wrapped"
    /\ UNCHANGED <<big_endian, alloc, T, U, arg, result, output>>

\* MaybeInvalid::<T>::zeroed()
Zeroed ==
    /\ pc = "value"
    /\ \E pad \in PadBytes : held' = MaybeInvalid_zeroed(T, pad)
    /\ steps' = Append(steps, [fn |-> "zeroed", did |-> <<>>])
    /\ pc' = "wrapped"
    /\ UNCHANGED <<big_endian, alloc, T, U, arg, result, output>>

\* wrapper.into_inner()
IntoInner ==
    /\ pc = "wrapped"
    /\ \E pad \in PadBytes :
          result' = [NoResult EXCEPT !.ok = TRUE, !.value = into_inner(T, held, pad)]
    /\ steps' = Append(steps, [fn |-> "into_inner", did |-> <<>>])
    /\ pc' = "unwrapped"
    /\ UNCHANGED <<big_endian, alloc, T, U, arg, held, output>>

\* wrapper.get()
Get ==
    /\ pc = "wrapped"
    /\ result' = [NoResult EXCEPT !.ok = TRUE, !.value = get(T, held)]
    /\ steps' = Append(steps, [fn |-> "get", did |-> <<>>])
    /\ pc' = "unwrapped"
    /\ UNCHANGED <<big_endian, alloc, T, U, arg, held, output>>

\* wrapper.as_bytes()
AsBytes ==
    /\ pc = "wrapped"
    /\ result' = [NoResult EXCEPT !.ok = TRUE, !.value = as_bytes(T, held)]
    /\ steps' = Append(steps, [fn |-> "as_bytes", did |-> <<>>])
    /\ pc' = "unwrapped"
    /\ UNCHANGED <<big_endian, alloc, T, U, arg, held, output>>

\* The caller makes the two ErrorKinds: BitPattern::from_le and
\* BitRanges::from_le on what each carries.
Build ==
    /\ pc = "kinds"
    /\ held' = <<ErrorKind_of(arg.mem[1]), ErrorKind_of(arg.mem[2])>>
    /\ steps' = Append(steps, [fn |-> "from_le", did |-> <<>>])
    /\ pc' = "built"
    /\ UNCHANGED <<big_endian, alloc, T, U, arg, result, output>>

\* left == right
Eq ==
    /\ pc = "built"
    /\ result' = [NoResult EXCEPT !.ok = ErrorKind_eq(held[1], held[2])]
    /\ steps' = Append(steps, [fn |-> "eq", did |-> <<>>])
    /\ pc' = "compared"
    /\ UNCHANGED <<big_endian, alloc, T, U, arg, held, output>>

Next ==
    \/ Into \/ TryFrom \/ CanTransmute
    \/ DeriveIffi \/ DeriveNicheless
    \/ New \/ Zeroed \/ IntoInner \/ Get \/ AsBytes
    \/ Build \/ Eq

Spec == Init /\ [][Next]_vars

----------------------------------------------------------------------------
(* What the claims are stated in.                                          *)

\* The bit pattern of a number: its little-endian bytes, as a build with
\* or without alloc stores them.
PatternOf(le) ==
    IF alloc THEN [bytes |-> le, len |-> Len(le)]
    ELSE [bytes |-> SubSeq(le, 1, Min(Len(le), BitPatternCap))
                    \o Zeros(BitPatternCap - Min(Len(le), BitPatternCap)),
          len |-> Min(Len(le), BitPatternCap)]

\* The inclusive ranges <<lo, hi>> of numbers; a build without alloc
\* tracks none.
RangesOf(rs) ==
    IF alloc
    THEN [i \in 1..Len(rs) |->
            [start |-> PatternOf(rs[i][1]), end |-> PatternOf(rs[i][2])]]
    ELSE <<>>

Validated == pc \in {"checked", "done"}

IsEnum(t) == IsDerived(t) /\ DeclOf(t[1]).data = "enum"

IsStruct(t) == IsDerived(t) /\ DeclOf(t[1]).data = "struct"

\* The validators a validator invoked itself, in order.
Direct(log) == SelectSeq(log, LAMBDA e : e.depth = 1)

\* The check each declared field is to get: its type against its universe.
DeclaredChecks(fields) ==
    [i \in 1..Len(fields) |->
        [ty    |-> fields[i].ty,
         uni   |-> IF fields[i].attrs = <<>> THEN MaybeInvalid(fields[i].ty)
                   ELSE fields[i].attrs[1].ty,
         depth |-> 1]]

IsPrefix(a, b) == Len(a) <= Len(b) /\ a = SubSeq(b, 1, Len(a))

\* The tag of the universe value handed to an enum validator, as a number.
TagOf(t, mem) == FromMem(SubSeq(mem, 1, IntSize[DeclaredInt(DeclOf(t[1]))]))

\* The variants whose discriminant, as the language assigns it, is the tag.
VariantsOf(t, tag) ==
    {v \in 1..Len(DeclOf(t[1]).variants) :
        tag = LEBytes(discriminant(DeclOf(t[1]).variants, v), Len(tag))}

\* The universe value a validation ran on.
Checked == IF arg.of = "U" THEN arg.mem ELSE held

\* C1: round trip. Every well-defined value v of a type T paired with a
\* universe U comes back from try_from(into(v)) as Ok(v).
C1_RoundTrip ==
    (pc = "done" /\ arg.of = "T") =>
        (result.ok /\ Fields(T, result.value) = Fields(T, arg.mem))

\* C2: a NonZero integer validated against its zero-inclusive integer or
\* against MaybeInvalid of itself fails iff the value is zero, with
\* InvalidBitPattern{bits: all zero, valid: [1 ..= all ones]}.
C2_NonZeroRejectsZero ==
    (Validated /\ IsNonZero(T)) =>
        IF Checked = Zeros(SizeOf(T))
        THEN /\ ~result.ok
             /\ result.err.error =
                    InvalidBitPattern(
                        PatternOf(Zeros(SizeOf(T))),
                        RangesOf(<<<< <<1>> \o Zeros(SizeOf(T) - 1),
                                      Ones(SizeOf(T)) >>>>))
        ELSE result.ok

\* C3: a tag equal to the discriminant of a variant (sequential from 0,
\* an explicit discriminant restarting the count) runs exactly the field
\* checks of that variant.
C3_TagSelectsVariant ==
    (Validated /\ IsEnum(T)) =>
        \A v \in VariantsOf(T, TagOf(T, Checked)) :
            /\ IsPrefix(Direct(result.log),
                        DeclaredChecks(DeclOf(T[1]).variants[v].fields))
            /\ result.ok =>
                 Len(Direct(result.log)) = Len(DeclOf(T[1]).variants[v].fields)
            /\ ~result.ok => Len(result.log) > 1

\* C4: a tag equal to no discriminant fails with InvalidEnumDiscriminant
\* carrying the tag's little-endian bytes, from MaybeInvalid<Self> into
\* Self, and no field is checked.
C4_UnknownTag ==
    (Validated /\ IsEnum(T) /\ VariantsOf(T, TagOf(T, Checked)) = {}) =>
        /\ ~result.ok
        /\ result.err = [error |-> InvalidEnumDiscriminant(
                                        PatternOf(TagOf(T, Checked))),
                         from  |-> MaybeInvalid(T),
                         into  |-> T]
        /\ Len(result.log) = 1

\* The declared field lists of a derived type: of the struct, or of each
\* of the variants.
FieldLists(t) ==
    IF DeclOf(t[1]).data = "struct" THEN {DeclOf(t[1]).fields}
    ELSE {DeclOf(t[1]).variants[v].fields : v \in 1..Len(DeclOf(t[1]).variants)}

\* The variant a universe value of a derived type is in, 0 for a struct.
VariantIn(t, mem) ==
    IF DeclOf(t[1]).data = "struct" THEN 0
    ELSE First(VariantsOf(t, TagOf(t, mem)) \cup {Len(DeclOf(t[1]).variants) + 1})

FieldsIn(t, v) ==
    IF v = 0 THEN DeclOf(t[1]).fields
    ELSE IF v > Len(DeclOf(t[1]).variants) THEN <<>>
    ELSE DeclOf(t[1]).variants[v].fields

\* What validating declared field i of the value, on its own, returns.
FieldResult(t, v, checks, mem, i) ==
    can_transmute(checks[i].ty, checks[i].uni,
                  ReadAt(mem, RealOffsets(t, v)[i], SizeOf(checks[i].ty)))

\* The declared fields of the value that are invalid.
InvalidFields(t, v, checks, mem) ==
    {i \in 1..Len(checks) : ~FieldResult(t, v, checks, mem, i).ok}

FirstInvalid(t, v, checks, mem, bad) ==
    /\ ~result.ok
    /\ result.err = FieldResult(t, v, checks, mem, First(bad)).err
    /\ Direct(result.log) = SubSeq(checks, 1, First(bad))

FirstFieldWins(t, v, checks, mem) ==
    Cardinality(InvalidFields(t, v, checks, mem)) >= 2 =>
        FirstInvalid(t, v, checks, mem, InvalidFields(t, v, checks, mem))

\* C5: a derived validator checks fields in declaration order and stops at
\* the first failing one; with two or more fields invalid at once the error
\* is that of the first-declared invalid field and no later field is checked.
C5_FirstFieldWins ==
    (Validated /\ IsDerived(T)) =>
        /\ \E fields \in FieldLists(T) :
              /\ IsPrefix(Direct(result.log), DeclaredChecks(fields))
              /\ result.ok => Len(Direct(result.log)) = Len(fields)
        /\ FirstFieldWins(T, VariantIn(T, Checked),
                          DeclaredChecks(FieldsIn(T, VariantIn(T, Checked))),
                          Checked)

\* Both fields of a Pair are zero and the validator has run.
C5_Witness ==
    /\ Validated
    /\ T = Ty("Pair")
    /\ Checked = Zeros(4)
    /\ ~result.ok
    /\ result.err.into = Ty("NonZeroU8")
    /\ Len(Direct(result.log)) = 1

\* C6: an all-zero block of the struct nested 8 deep fails with the error
\* of the innermost NonZeroU8, as that validator made it: InvalidBitPattern
\* with bits 0x00 and valid [1 ..= 0xff], from MaybeInvalid<NonZeroU8> into
\* NonZeroU8.
C6_DeepError ==
    (Validated /\ T = Ty("Deep8") /\ Checked = <<0>>) =>
        /\ ~result.ok
        /\ result.err =
              [error |-> InvalidBitPattern(PatternOf(<<0>>),
                                           RangesOf(<< <<<<1>>, <<255>>>> >>)),
               from  |-> MaybeInvalid(Ty("NonZeroU8")),
               into  |-> Ty("NonZeroU8")]

C6_Witness ==
    /\ pc = "done"
    /\ T = Ty("Deep8")
    /\ arg = [of |-> "U", mem |-> <<0>>]
    /\ ~result.ok
    /\ Len(result.log) = 9

\* A field of the value failed, not the validator called.
NestedFailure == pc = "done" /\ ~result.ok /\ Len(result.log) > 1

\* C7 as stated: when a nested field fails during try_from::<T, U>, the
\* error names the top-level conversion, from U into T.
C7_TopLevelNames ==
    NestedFailure => (result.err.from = U /\ result.err.into = T)

\* C7: when a nested field fails during try_from::<T, U>, the error names
\* the pairing of the validator that failed, the last one invoked: from
\* the universe of that field into the type of that field.
C7_FailingValidatorNames ==
    NestedFailure =>
        /\ result.err.from = result.log[Len(result.log)].uni
        /\ result.err.into = result.log[Len(result.log)].ty
        /\ result.log[Len(result.log)].depth >= 1

\* The second field of a Pair failed: the error names the pairing of
\* NonZeroU16, not that of Pair.
C7_Witness ==
    /\ pc = "done"
    /\ T = Ty("Pair")
    /\ ~result.ok
    /\ result.err.from = MaybeInvalid(Ty("NonZeroU16"))
    /\ result.err.into = Ty("NonZeroU16")

TryFromReturned(r, did) ==
    /\ result.ok = r.ok
    /\ did[1] = "can_transmute"
    /\ r.ok => (result.value = Checked
                /\ did = <<"can_transmute", "debug_assert_eq", "transmute">>)
    /\ ~r.ok => (result.err = r.err /\ result.value = <<>>
                 /\ did = <<"can_transmute">>)

\* C8: try_from first calls can_transmute; it returns Ok(the bits of the
\* value) iff can_transmute returned Ok, else exactly can_transmute's
\* error, and it never reinterprets without a successful validation.
C8_TryFromValidates ==
    pc = "done" =>
        TryFromReturned(can_transmute(T, U, Checked), steps[Len(steps)].did)

\* try_from has refused a value and handed nothing over.
C8_Witness ==
    /\ pc = "done"
    /\ arg.of = "U"
    /\ T = Ty("derive_iffi::A")
    /\ ~result.ok
    /\ result.value = <<>>
    /\ steps[1].did = <<"can_transmute">>

\* C9: into never validates and never fails; the universe value it returns
\* has the bits of the value it was given.
C9_IntoKeepsBits ==
    (arg.of = "T" /\ pc # "start") =>
        /\ pc \in {"converted", "done"}
        /\ held = arg.mem
        /\ steps[1] = [fn |-> "into", did |-> <<"debug_assert_eq", "transmute">>]

C9_Witness ==
    /\ pc = "converted"
    /\ T = Ty("derive_iffi::TA")
    /\ held = arg.mem
    /\ held # Zeros(Len(held))

\* C10: a Nicheless type validated against itself or against MaybeInvalid
\* of itself is Ok for every bit pattern.
C10_NichelessAlwaysOk ==
    (Validated /\ Nicheless(T) /\ U \in {T, MaybeInvalid(T)}) =>
        (result.ok /\ result.log = <<[ty |-> T, uni |-> U, depth |-> 0]>>)

\* The wrapper pairing has accepted the all-zero pattern.
C10_Witness ==
    /\ Validated
    /\ T = MaybeInvalid(Ty("NonZeroU16"))
    /\ U = MaybeInvalid(T)
    /\ arg.mem = Zeros(2)
    /\ result.ok

\* C11: a derived struct validator returns Ok iff the validator of every
\* declared field returns Ok on that field's part of the input; a struct
\* with no fields always returns Ok.
C11_StructOkIffFieldsOk ==
    (Validated /\ IsStruct(T)) =>
        (result.ok <=>
            InvalidFields(T, 0, DeclaredChecks(DeclOf(T[1]).fields), Checked) = {})

\* The struct A of the tests was refused for its second field alone, the
\* first and the third being fine.
C11_Witness ==
    /\ Validated
    /\ T = Ty("derive_iffi::A")
    /\ Checked[2] = 0
    /\ ~result.ok
    /\ Len(Direct(result.log)) = 2

\* The fields of the variant the tag selects are all valid where the enum
\* keeps them.
VariantValid(t, v, mem) ==
    /\ v <= Len(DeclOf(t[1]).variants)
    /\ InvalidFields(t, v, DeclaredChecks(FieldsIn(t, v)), mem) = {}

\* C12: a derived enum validator returns Ok iff the tag equals some
\* variant's discriminant and every payload field of that variant
\* validates; it checks the payload of that variant only, never the tag
\* field, and a matched variant without payload returns Ok.
C12_EnumOkIffVariantOk ==
    (Validated /\ IsEnum(T)) =>
        /\ result.ok <=> VariantValid(T, VariantIn(T, Checked), Checked)
        /\ IsPrefix(Direct(result.log),
                    DeclaredChecks(FieldsIn(T, VariantIn(T, Checked))))

SameLayout(t, g) ==
    /\ \A v \in 1..Len(g.shadow) :
          ShadowOffsets(g.shadow[v]) = <<0>> \o RealOffsets(t, v)
    /\ Variants_size(g) = SizeOf(t)
    /\ Variants_align(g) = AlignOf(t)

\* C13: for every enum representation the derive accepts, the generated
\* shadow keeps the tag and every payload field of every variant at the
\* offset the enum keeps them, with the same total size and alignment.
C13_EnumShadowLayout ==
    IsEnum(T) => SameLayout(T, impl_iffi(DeclOf(T[1])))

\* The derive has expanded a declaration of this kind without an error.
Expanded(data) ==
    pc = "expanded" /\ ItemOf(T[1]).data = data /\ output.ok

SameFields(fields, shadow) ==
    /\ Len(shadow) = Len(fields)
    /\ \A i \in 1..Len(fields) :
          /\ shadow[i].ident = fields[i].ident
          /\ shadow[i].ty = DeclaredChecks(fields)[i].uni

SameRepr(decl, g) ==
    /\ g.layout = IF HasRepr(decl, "transparent") THEN "transparent" ELSE "C"
    /\ Max(g.align, 1) = DeclaredAlign(decl)

\* C14: the shadow struct Fields of a derived struct has the fields of the
\* struct, as many and in the same order, only their types widened, the
\* same layout representation and the same explicit alignment.
C14_StructShadow ==
    Expanded("struct") =>
        /\ SameFields(ItemOf(T[1]).fields, output.shadow[1])
        /\ SameRepr(ItemOf(T[1]), output)

\* Every field list of a declaration: of the struct or union, and of each
\* variant.
AllFieldLists(decl) ==
    {decl.fields} \cup {decl.variants[v].fields : v \in 1..Len(decl.variants)}

WithCount(field) ==
    Cardinality({k \in 1..Len(field.attrs) : field.attrs[k].param = "with"})

\* Some field carries two with-overrides.
HasConflict(decl) ==
    \E fields \in AllFieldLists(decl) : \E i \in 1..Len(fields) :
        WithCount(fields[i]) >= 2

\* Some field carries an iffi parameter other than with.
HasUnknown(decl) ==
    \E fields \in AllFieldLists(decl) : \E i \in 1..Len(fields) :
        \E k \in 1..Len(fields[i].attrs) : fields[i].attrs[k].param # "with"

\* The generated checks pair each field's type with its universe.
ChecksAgainst(fields, checks) ==
    /\ Len(checks) = Len(fields)
    /\ \A i \in 1..Len(fields) :
          /\ checks[i].real_ty = fields[i].ty
          /\ checks[i].proxy_ty =
                IF WithCount(fields[i]) = 1
                THEN (CHOOSE a \in {fields[i].attrs[k] : k \in 1..Len(fields[i].attrs)} :
                          a.param = "with").ty
                ELSE MaybeInvalid(fields[i].ty)

UniversesChosen(decl, g) ==
    IF decl.data = "struct" THEN ChecksAgainst(decl.fields, g.checks)
    ELSE \A v \in 1..Len(decl.variants) :
            ChecksAgainst(decl.variants[v].fields, g.arms[v].checks)

\* C15: each field is validated against MaybeInvalid<field type>, or
\* against X when it carries #[iffi(with = "X")]; a field with two
\* with-overrides and a field with an unknown iffi parameter are rejected.
C15_FieldUniverses ==
    pc = "expanded" =>
        /\ (HasConflict(ItemOf(T[1])) \/ HasUnknown(ItemOf(T[1]))) => ~output.ok
        /\ output.ok => UniversesChosen(ItemOf(T[1]), output)

\* The struct A of the tests is expanded: b is checked against
\* MaybeInvalid<NonZeroU8>, c against its override u8.
C15_Witness ==
    /\ pc = "expanded"
    /\ T = Ty("derive_iffi::A")
    /\ output.ok
    /\ output.checks[2].proxy_ty = MaybeInvalid(Ty("NonZeroU8"))
    /\ output.checks[3].proxy_ty = Ty("u8")

HasIntRepr(decl) == \E id \in IntTypes : HasRepr(decl, id)

\* The declarations the derive is to refuse.
MustReject(decl) ==
    \/ decl.data = "union"
    \/ decl.data = "enum" /\ ~HasIntRepr(decl)
    \/ HasRepr(decl, "packed")
    \/ ~(HasRepr(decl, "C") \/ HasRepr(decl, "transparent") \/ HasIntRepr(decl))

\* A refusal is an error and no implementation.
Refused(g) ==
    ~g.ok /\ g.err # "" /\ g.shadow = <<>> /\ g.checks = <<>> /\ g.arms = <<>>

AllFieldsMarked(decl) ==
    \A fields \in AllFieldLists(decl) : \A i \in 1..Len(fields) :
        has_marker(fields[i].ty)

\* C17: the Nicheless derive yields an accepted implementation for a
\* struct or enum only if every field, of every variant, is Nicheless.
C17_NichelessTransitive ==
    (pc = "marked" /\ output.marker) =>
        /\ ItemOf(T[1]).data \in {"struct", "enum"}
        /\ AllFieldsMarked(ItemOf(T[1]))

\* A struct holding a struct of always-valid fields has the marker, and a
\* struct of a u8 and a NonZeroU8 would not get it.
C17_Witness ==
    /\ pc = "marked"
    /\ T = Ty("Outer")
    /\ output.marker
    /\ ~has_marker(Ty("derive_iffi::A"))

RECURSIVE Uninhabited(_)

\* A type without values: an enum whose every variant holds a field
\* without values (an enum without variants at that), a struct holding
\* such a field.
Uninhabited(t) ==
    IF IsMaybeInvalid(t) \/ t[1] \in IntTypes \/ t[1] \in NonZeroTypes THEN FALSE
    ELSE IF ItemOf(t[1]).data = "enum"
    THEN \A v \in 1..Len(ItemOf(t[1]).variants) :
            \E i \in 1..Len(ItemOf(t[1]).variants[v].fields) :
                Uninhabited(ItemOf(t[1]).variants[v].fields[i].ty)
    ELSE IF ItemOf(t[1]).data = "struct"
    THEN \E i \in 1..Len(ItemOf(t[1]).fields) :
            Uninhabited(ItemOf(t[1]).fields[i].ty)
    ELSE FALSE

\* C18: the Nicheless derive gives no marker to an uninhabited type, and
\* refuses a union with an error.
C18_NoMarkerForUninhabited ==
    pc = "marked" =>
        /\ Uninhabited(T) => ~output.marker
        /\ ItemOf(T[1]).data = "union" =>
              (~output.ok /\ output.err = UNION_ERR /\ ~output.marker)

\* The enum without variants went through the derive and has no marker.
C18_Witness ==
    /\ pc = "marked"
    /\ T = Ty("Never")
    /\ Uninhabited(T)
    /\ ~output.marker

\* The names of the operations a caller has made, in order.
Operations == [i \in 1..Len(steps) |-> steps[i].fn]

\* C19: for every Nicheless T and value v, MaybeInvalid::new(v).into_inner()
\* equals v and get() refers to v; MaybeInvalid::<T>::zeroed().as_bytes()
\* has size_of T bytes and every one of them is zero; MaybeInvalid<T> is
\* Nicheless for every T.
C19_MaybeInvalidContract ==
    /\ Operations \in {<<"new", "into_inner">>, <<"new", "get">>} =>
            Fields(T, result.value) = Fields(T, arg.mem)
    /\ Operations = <<"zeroed", "as_bytes">> =>
            /\ Len(result.value) = SizeOf(T)
            /\ \A k \in 1..Len(result.value) : result.value[k] = 0
    /\ pc \in {"value", "wrapped", "unwrapped"} => has_marker(MaybeInvalid(T))

\* A caller converting between a subset type and a universe.
Converting == pc \in {"start", "converted", "checked", "done", "panicked"}

\* C20: the size assertions of try_from and into never fire: for every
\* pairing the library provides (identity, MaybeInvalid wrapper, NonZero
\* pairs) or the derive generates, the universe has the size of the subset
\* type.
C20_SizeAssertionsHold ==
    Converting =>
        /\ SizeOf(U) = SizeOf(T)
        /\ pc # "panicked"
        /\ \A i \in 1..Len(steps) :
              \A k \in 1..Len(steps[i].did) : steps[i].did[k] # "panic"

\* Both assertions have passed on a value of a derived enum with padding.
C20_Witness ==
    /\ T = Ty("derive_iffi::TA")
    /\ pc = "done"
    /\ Len(steps) = 2
    /\ steps[1] = [fn |-> "into", did |-> <<"debug_assert_eq", "transmute">>]
    /\ steps[2] = [fn |-> "try_from",
                   did |-> <<"can_transmute", "debug_assert_eq", "transmute">>]

ChildrenOf(log, i) ==
    LET kids == SelectSeq([j \in 1..Len(log) |-> j],
                    LAMBDA j : /\ j > i
                               /\ log[j].depth = log[i].depth + 1
                               /\ \A k \in (i + 1)..(j - 1) : log[k].depth > log[i].depth)
    IN  [n \in 1..Len(kids) |-> [log[kids[n]] EXCEPT !.depth = 1]]

RECURSIVE SumCalls(_)

\* The number of validators a complete validation of t against u invokes at
\* most: t's own, and those of the fields of its longest chain of choices.
RECURSIVE MostCalls(_, _)
MostCalls(t, u) ==
    IF ~IsDerived(t) \/ u # MaybeInvalid(t) THEN 1
    ELSE 1 + MaxOf({0} \cup
               {SumCalls(DeclaredChecks(fl)) : fl \in FieldLists(t)})

SumCalls(checks) ==
    IF checks = <<>> THEN 0
    ELSE MostCalls(checks[1].ty, checks[1].uni) + SumCalls(Tail(checks))

\* C22: validating any value of a finitely nested derived type ends after a
\* bounded number of validator calls, each visited struct or selected
\* variant invoking at most one validator per declared field, in Ok or in a
\* single error.
C22_ValidationTerminates ==
    (Validated /\ IsDerived(T)) =>
        /\ Len(result.log) <= MostCalls(T, U)
        /\ \A i \in 1..Len(result.log) :
              IsDerived(result.log[i].ty) =>
                  \E fl \in FieldLists(result.log[i].ty) \cup {<<>>} :
                      IsPrefix(ChildrenOf(result.log, i), DeclaredChecks(fl))
        /\ result.ok <=> result.err = NoError

\* The struct nested 8 deep was walked to its innermost field and accepted.
C22_Witness ==
    /\ Validated
    /\ T = Ty("Deep8")
    /\ result.ok
    /\ Len(result.log) = 9

\* The NonZero error as the tests build it, from integers: the pattern of
\* the integer 0 and the range from the integer 1 to the largest integer.
ErrorFromIntegers(SIZE) ==
    InvalidBitPattern(
        BitPattern_from_le(ToMem(Zeros(SIZE))),
        BitRanges_from_le(<<[start |-> ToMem(<<1>> \o Zeros(SIZE - 1)),
                             end   |-> ToMem(Ones(SIZE))]>>))

\* C23: BitPattern is a canonical little-endian byte sequence: from_le of
\* an integer equals from_le of the array of that integer's little-endian
\* bytes, so the NonZero error built from byte arrays equals the one built
\* from integers, whatever the target's endianness.
C23_CanonicalLittleEndian ==
    (Validated /\ IsNonZero(T)) =>
        /\ BitPattern_from_le(Checked) =
               BitPattern_from_le(to_le_bytes(FromMem(Checked)))
        /\ nonzero_error(SizeOf(T)) = ErrorFromIntegers(SizeOf(T))

\* A validation has failed.
Failed == Validated /\ ~result.ok

Built == pc \in {"built", "compared"}

\* The sides of a comparison that carry a bit pattern.
WithBits == {i \in 1..2 : arg.mem[i].kind \in {"InvalidEnumDiscriminant", "InvalidBitPattern"}}

\* The pattern p keeps the first n bytes of the value in memory m, the
\* lowest byte first, and records n.
Keeps(p, m, n) ==
    /\ p.len = n
    /\ \A k \in 1..n : p.bytes[k] = m[IF big_endian THEN n + 1 - k ELSE k]

\* The bytes a pattern keeps.
Kept(p) == SubSeq(p.bytes, 1, p.len)

\* C25: without alloc, BitPattern::from_le keeps the first min(size, 20)
\* bytes of the value and records that length; two patterns are equal iff
\* they have the same length and the same kept bytes, so values that
\* differ only after byte 20 yield equal patterns; with alloc every byte
\* is kept.
C25_PatternCapacity ==
    Built =>
        /\ \A i \in WithBits :
              Keeps(held[i].bits, arg.mem[i].bits,
                    IF alloc THEN Len(arg.mem[i].bits)
                    ELSE Min(Len(arg.mem[i].bits), 20))
        /\ \A i \in WithBits : alloc => Len(held[i].bits.bytes) = Len(arg.mem[i].bits)
        /\ WithBits = {1, 2} =>
              /\ BitPattern_eq(held[1].bits, held[2].bits) <=>
                     (held[1].bits.len = held[2].bits.len
                      /\ Kept(held[1].bits) = Kept(held[2].bits))
              /\ (/\ ~alloc
                  /\ Len(arg.mem[1].bits) = Len(arg.mem[2].bits)
                  /\ Len(arg.mem[1].bits) > 20
                  /\ SubSeq(arg.mem[1].bits, 1, 20) = SubSeq(arg.mem[2].bits, 1, 20))
                 => BitPattern_eq(held[1].bits, held[2].bits)

\* Two values that differ in their last byte alone compared equal.
C25_Witness ==
    /\ pc = "compared"
    /\ ~alloc
    /\ arg.mem[1].kind = "InvalidEnumDiscriminant"
    /\ arg.mem[2].kind = "InvalidEnumDiscriminant"
    /\ Len(arg.mem[1].bits) = Len(arg.mem[2].bits)
    /\ arg.mem[1].bits # arg.mem[2].bits
    /\ result.ok

\* Both sides of a comparison are InvalidBitPattern errors.
BothBitPatterns ==
    arg.mem[1].kind = "InvalidBitPattern" /\ arg.mem[2].kind = "InvalidBitPattern"

\* The ranges rs keep every range of the list in, in its order, both ends
\* with every byte, the lowest first.
KeepsRanges(rs, in) ==
    /\ Len(rs) = Len(in)
    /\ \A i \in 1..Len(in) :
          /\ Keeps(rs[i].start, in[i].start, Len(in[i].start))
          /\ Keeps(rs[i].end, in[i].end, Len(in[i].end))

\* C26: with alloc, BitRanges::from_le keeps every range in input order
\* with both endpoints as little-endian patterns, and two BitRanges are
\* equal iff their range lists are equal; without alloc every BitRanges is
\* equal to every other, so two InvalidBitPattern errors are equal iff
\* their observed bits are equal.
C26_RangeTracking ==
    (Built /\ BothBitPatterns) =>
        /\ alloc => /\ KeepsRanges(held[1].valid, arg.mem[1].valid)
                    /\ KeepsRanges(held[2].valid, arg.mem[2].valid)
                    /\ BitRanges_eq(held[1].valid, held[2].valid) <=>
                           arg.mem[1].valid = arg.mem[2].valid
        /\ ~alloc => /\ BitRanges_eq(held[1].valid, held[2].valid)
                     /\ ErrorKind_eq(held[1], held[2]) <=>
                            BitPattern_eq(held[1].bits, held[2].bits)
        /\ pc = "compared" =>
              (result.ok <=>
                  /\ BitPattern_eq(held[1].bits, held[2].bits)
                  /\ alloc => arg.mem[1].valid = arg.mem[2].valid)

\* Without alloc, two errors with the same bits and different valid ranges
\* compared equal.
C26_Witness ==
    /\ pc = "compared"
    /\ ~alloc
    /\ BothBitPatterns
    /\ arg.mem[1].bits = arg.mem[2].bits
    /\ arg.mem[1].valid # arg.mem[2].valid
    /\ result.ok

\* The ErrorKinds this build can make of the inputs.
AllKinds ==
    {ErrorKind_of(in) : in \in {k \in KindInputs : alloc \/ k.kind # "Custom"}}

\* What the claim says of the equality of two ErrorKinds.
EqualAsClaimed(l, r) ==
    CASE l.kind # r.kind -> FALSE
      [] l.kind = "InvalidEnumDiscriminant" -> l.bits = r.bits
      [] l.kind = "InvalidBitPattern" -> l.bits = r.bits /\ l.valid = r.valid
      [] OTHER -> TRUE

\* C27: ErrorKind equality is an equivalence relation: two
\* InvalidEnumDiscriminant are equal iff their bit patterns are, two
\* InvalidBitPattern iff both bits and valid ranges are, values of
\* different kinds never, and two NullPtr or two Custom always, whatever
\* the Custom payload.
C27_ErrorKindEquality ==
    Built =>
        /\ ErrorKind_eq(held[1], held[1])
        /\ ErrorKind_eq(held[1], held[2]) <=> ErrorKind_eq(held[2], held[1])
        /\ \A c \in AllKinds :
              (ErrorKind_eq(held[1], held[2]) /\ ErrorKind_eq(held[2], c))
                  => ErrorKind_eq(held[1], c)
        /\ ErrorKind_eq(held[1], held[2]) <=> EqualAsClaimed(held[1], held[2])
        /\ pc = "compared" => (result.ok <=> EqualAsClaimed(held[1], held[2]))

\* Two Custom errors boxing different errors compared equal.
C27_Witness ==
    /\ pc = "compared"
    /\ arg.mem[1].kind = "Custom"
    /\ arg.mem[2].kind = "Custom"
    /\ held[1] # held[2]
    /\ result.ok

\* C28: every NonZero integer type that has a zero-inclusive universe
\* pairing is OneNiche as well, so that Option of it is Nicheless.
C28_NonZeroOneNiche ==
    (Converting /\ IsNonZero(T) /\ Iffi_impl(T, Ty(NonZeroOf[T[1]])) = "nonzero") =>
        (OneNiche(T) /\ Option_Nicheless(T))

\* The Nicheless derive has run on a struct or an enum that has values and
\* whose fields, of every variant, are all Nicheless.
MarkedEligible(data) ==
    /\ pc = "marked"
    /\ ItemOf(T[1]).data = data
    /\ ~Uninhabited(T)
    /\ AllFieldsMarked(ItemOf(T[1]))

\* C29: the Nicheless derive accepts every non-generic enum all of whose
\* variant fields are Nicheless, as it accepts every such struct: what it
\* generates for an enum is a well-formed check over the fields of each
\* variant, followed by the marker implementation.
C29_EnumsAccepted ==
    /\ MarkedEligible("struct") => output.marker
    /\ MarkedEligible("enum") => (output.scrutinee # <<>> /\ output.marker)

====
